---- MODULE Spec2Model ----
(***************************************************************************)
(* Model of the pBFT replica of src/src/consensus.rs: the consensus engine *)
(* loop (Consensus::spawn), the admission checks run in spawned tasks      *)
(* (InnerConsensus::process_message), the wait timers                      *)
(* (InnerConsensus::wait_for_outstanding), the request digest of           *)
(* src/src/messages.rs and the network fan-out of src/src/node.rs.         *)
(***************************************************************************)
EXTENDS Integers, Sequences, FiniteSets, TLC

\* ------------------------------------------------------------------ bounds
\* Capacity of the bounded mpsc channel feeding the engine loop.
QueueCap == 2
\* Most process_message tasks of one replica alive at once.
MaxTasks == 1

\* ----------------------------------------------------------- configuration
\* config.num_nodes and config.num_faulty of the cluster (n = 3f + 1).
NumNodes == 4
NumFaulty == 1

Replicas == 0 .. (NumNodes - 1)

\* Option<T>: the empty set is None, {v} is Some(v).
None == {}
Some(v) == {v}

\* ---------------------------------------------------------------- digests
\* to_le_bytes of an unsigned integer of w bytes.
RECURSIVE LEBytes(_, _)
LEBytes(n, w) == IF w = 0 THEN <<>> ELSE <<n % 256>> \o LEBytes(n \div 256, w - 1)

\* Decimal digits of n as ASCII bytes (Display of an integer).
RECURSIVE Decimal(_)
Decimal(n) == IF n < 10 THEN <<48 + n>> ELSE Decimal(n \div 10) \o <<48 + (n % 10)>>

\* SocketAddr::to_string of an IPv4 socket address: "a.b.c.d:port".
AddrToString(addr) ==
    Decimal(addr.ip[1]) \o <<46>> \o Decimal(addr.ip[2]) \o <<46>> \o
    Decimal(addr.ip[3]) \o <<46>> \o Decimal(addr.ip[4]) \o <<58>> \o Decimal(addr.port)

\* ClientRequest::digest: the bytes fed to SHA-512, in order.  The hash is
\* taken to be collision free, so the digest is represented by its input.
DigestBytes(request) ==
    LET a == AddrToString(request.respond_addr)
        t == LEBytes(request.time_stamp, 8)
        k == request.key
        v == IF request.value = None THEN <<>>
             ELSE LET x == CHOOSE y \in request.value : TRUE
                  IN  LEBytes(x, 4) \o LEBytes(x, 4)
    IN  a \o t \o k \o v

\* request.hash() as used by the engine.
Hash(request) == DigestBytes(request)

\* --------------------------------------------------------------- messages
ClientRequest(addr, ts, k, v) ==
    [respond_addr |-> addr, time_stamp |-> ts, key |-> k, value |-> v]

PrePrepare(i, v, s, d, request) ==
    [type |-> "PrePrepare", id |-> i, view |-> v, seq_num |-> s, digest |-> d,
     client_request |-> request]

Prepare(i, v, s, d) ==
    [type |-> "Prepare", id |-> i, view |-> v, seq_num |-> s, digest |-> d]

Commit(i, v, s, d) ==
    [type |-> "Commit", id |-> i, view |-> v, seq_num |-> s, digest |-> d]

ClientRequestMessage(request) == [type |-> "ClientRequest", client_request |-> request]

\* NodeCommand sent on tx_node: a send to one replica or a broadcast.
SendMessage(dest, m) == [type |-> "SendMessage", destination |-> dest, message |-> m]
BroadCastMessage(m) == [type |-> "BroadCastMessage", message |-> m]

\* ConsensusCommand sent on tx_consensus.
Command(t, a) == [type |-> t, arg |-> a]
NoCommand == [type |-> "None"]

\* The types of the commands of the engine loop.
CommandTypes ==
    {"MisdirectedClientRequest", "ProcessClientRequest", "InitPrePrepare",
     "AcceptPrePrepare", "AcceptPrepare", "EnterCommit", "AcceptCommit",
     "InitViewChange", "ApplyClientRequest"}

\* ------------------------------------------------------------------- maps
EmptyMap == [k \in {} |-> {}]
MapPut(f, k, v) == [x \in (DOMAIN f) \cup {k} |-> IF x = k THEN v ELSE f[x]]

\* ------------------------------------------------------------------ state
VARIABLES
    in_view_change,        \* State.in_view_change of each replica
    view,                  \* State.view
    seq_num,               \* State.seq_num
    log,                   \* State.log
    store,                 \* State.store
    requests_seen,         \* InnerConsensus.requests_seen
    prepare_votes,         \* InnerConsensus.prepare_votes
    commit_votes,          \* InnerConsensus.commit_votes
    outstanding_requests,  \* InnerConsensus.outstanding_requests
    rx_consensus,          \* the commands waiting in the engine's channel
    cur,                   \* the command the engine loop is handling
    engine,                \* "running", "returned" or "panicked"
    tasks,                 \* spawned process_message tasks that have not run yet
    timers,                \* sleeping wait_for_outstanding tasks, per request
    tx_node,               \* the NodeCommands the engine has emitted, in order
    net,                   \* the messages in flight on each connection, in order
    expiries,              \* how many more timers expire in the run observed
    active,                \* the replicas that take steps in the run observed
    applied,               \* history: what each ApplyClientRequest applied
    cp_net,                \* the CheckPoint messages in flight to each replica
    checkpoint_votes,      \* the checkpoint tally of each replica
    stable_checkpoints,    \* the stable checkpoints each replica recorded, in order
    responses,             \* the ClientResponses in flight to the client
    success_vote_quorum,   \* VoteCounter.success_vote_quorum
    votes,                 \* VoteCounter.votes
    rx_client,             \* the VoteCertificates waiting in the client's channel
    succ_votes,            \* succ_votes of the client's vote_count_fut
    stdout,                \* the certificates vote_count_fut reported, in order
    held_by,               \* the task holding each mutex of InnerConsensus
    todo,                  \* the lock operations each task has still to do
    hashed,                \* the client requests whose digests are taken
    digests,               \* the digests taken so far, in order
    sent,                  \* the signed message as its sender built it
    received,              \* the message as it reaches the verifier
    verdict                \* what is_properly_signed_by returned, if it ran

state_vars == <<in_view_change, view, seq_num, log, store>>
inner_vars == <<requests_seen, prepare_votes, commit_votes, outstanding_requests>>
checkpoint_vars == <<cp_net, checkpoint_votes, stable_checkpoints>>
client_vars == <<responses, success_vote_quorum, votes, rx_client, succ_votes,
                 stdout>>
lock_vars == <<held_by, todo>>
message_vars == <<hashed, digests, sent, received, verdict>>
other_vars == <<checkpoint_vars, client_vars, lock_vars, message_vars>>
replica_vars == <<in_view_change, view, seq_num, log, store, requests_seen,
                  prepare_votes, commit_votes, outstanding_requests, rx_consensus,
                  cur, engine, tasks, timers, tx_node, net, expiries, active, applied>>
vars == <<in_view_change, view, seq_num, log, store, requests_seen, prepare_votes,
          commit_votes, outstanding_requests, rx_consensus, cur, engine, tasks,
          timers, tx_node, net, expiries, active, applied, cp_net, checkpoint_votes,
          stable_checkpoints, responses, success_vote_quorum, votes, rx_client,
          succ_votes, stdout, held_by, todo, hashed, digests, sent, received,
          verdict>>

\* A leader function that is one replica ahead.
next_leader(r) == (view[r] + 1) % NumNodes

\* Consensus::current_leader
current_leader(r) == view[r] % NumNodes

\* The connections: one per sender and replica.  Sender NumNodes is the client.
Client == NumNodes
Conn == (0 .. NumNodes) \X Replicas

\* InnerNode::send_message: the message is written to the connection from r
\* to the destination.
send_message(n, r, dest, m) == [n EXCEPT ![<<r, dest>>] = Append(@, m)]

\* InnerNode::broadcast: one copy to every address of config.peer_addrs, the
\* sender's own address included.
broadcast(n, r, m) == [c \in Conn |-> IF c[1] = r THEN Append(n[c], m) ELSE n[c]]

\* tokio::spawn of wait_for_outstanding(request)
SpawnTimer(r, request) ==
    MapPut(timers[r], request,
           IF request \in DOMAIN timers[r] THEN timers[r][request] + 1 ELSE 1)

\* ------------------------------------------------------ admission checks
\* InnerConsensus::should_accept_pre_prepare
should_accept_pre_prepare(r, message) == view[r] = message.view

\* An admission check of Prepares that does not compare digests.
should_accept_prepare_of_any_digest(r, message) ==
    /\ view[r] = message.view
    /\ <<message.view, message.seq_num>> \in DOMAIN requests_seen[r]

\* InnerConsensus::should_accept_prepare
should_accept_prepare(r, message) ==
    /\ view[r] = message.view
    /\ <<message.view, message.seq_num>> \in DOMAIN requests_seen[r]
    /\ message.digest = Hash(requests_seen[r][<<message.view, message.seq_num>>])

\* InnerConsensus::should_accept_commit
should_accept_commit(r, message) == TRUE

\* InnerConsensus::should_process_client_request
should_process_client_request(r, request) == ~in_view_change[r]

\* The command process_message sends for a message, as a set: empty when the
\* message is dropped.
ProcessMessageResult(r, message) ==
    IF message.type = "PrePrepare"
    THEN IF should_accept_pre_prepare(r, message)
         THEN {Command("AcceptPrePrepare", message)} ELSE {}
    ELSE IF message.type = "Prepare"
    THEN IF should_accept_prepare(r, message)
         THEN {Command("AcceptPrepare", message)} ELSE {}
    ELSE IF message.type = "Commit"
    THEN IF should_accept_commit(r, message)
         THEN {Command("AcceptCommit", message)} ELSE {}
    ELSE IF message.type = "ClientRequest"
    THEN IF should_process_client_request(r, message.client_request)
         THEN {Command("ProcessClientRequest", message.client_request)} ELSE {}
    ELSE {}

\* ------------------------------------------------------- handler helpers
\* The vote bookkeeping shared by AcceptPrepare and AcceptCommit: the vote
\* map after a vote of replica i for key k.
VotesAfter(tally, k, i) ==
    IF k \in DOMAIN tally THEN MapPut(tally, k, tally[k] \cup {i})
    ELSE MapPut(tally, k, {i})

\* Whether that vote makes the handler send the follow-up command.
VoteCrosses(tally, k, i) ==
    /\ k \in DOMAIN tally
    /\ Cardinality(tally[k] \cup {i}) > 2 * NumFaulty

\* A store update that keeps only the key being set.
StoreReplacedOnSet(s, request) ==
    IF request.value # None
    THEN MapPut(EmptyMap, request.key, CHOOSE v \in request.value : TRUE)
    ELSE s

\* The store after ApplyClientRequest applies a request.
StoreAfterApply(s, request) ==
    IF request.value # None
    THEN MapPut(s, request.key, CHOOSE v \in request.value : TRUE)
    ELSE s

\* ------------------------------------------------------------ the engine
\* A replica takes steps while its node runs and its engine loop has neither
\* returned nor panicked.
Running(r) == r \in active /\ engine[r] = "running"
EngineIdle(r) == Running(r) /\ cur[r] = NoCommand
Handling(r, t) == Running(r) /\ cur[r].type = t
HasRoom(r) == Len(rx_consensus[r]) < QueueCap

\* rx_consensus.recv(): the loop takes the next command.
Recv(r) ==
    /\ EngineIdle(r)
    /\ rx_consensus[r] # <<>>
    /\ cur' = [cur EXCEPT ![r] = Head(rx_consensus[r])]
    /\ rx_consensus' = [rx_consensus EXCEPT ![r] = Tail(rx_consensus[r])]
    /\ UNCHANGED <<state_vars, inner_vars, engine, tasks, timers, tx_node, net,
                   expiries, active, other_vars, applied>>

\* The node reads the next message of a connection and hands it to the engine
\* as ConsensusCommand::ProcessMessage, whose handler only spawns
\* process_message(message): the message becomes a task of the replica.
ProcessMessage(r, from) ==
    /\ Running(r)
    /\ net[<<from, r>>] # <<>>
    /\ Len(tasks[r]) < MaxTasks
    /\ tasks' = [tasks EXCEPT ![r] = Append(tasks[r], Head(net[<<from, r>>]))]
    /\ net' = [net EXCEPT ![<<from, r>>] = Tail(@)]
    /\ UNCHANGED <<state_vars, inner_vars, rx_consensus, cur, engine, timers,
                   tx_node, expiries, active, other_vars, applied>>

\* A sequence without its i-th element.
Without(q, i) == SubSeq(q, 1, i - 1) \o SubSeq(q, i + 1, Len(q))

\* InnerConsensus::process_message, run in its own task: the i-th task spawned
\* and not yet run evaluates the admission check and sends the command.
RunProcessMessage(r, i) ==
    /\ r \in active
    /\ i \in 1 .. Len(tasks[r])
    /\ LET out == ProcessMessageResult(r, tasks[r][i])
       IN  IF out = {}
           THEN UNCHANGED rx_consensus
           ELSE /\ HasRoom(r)
                /\ rx_consensus' = [rx_consensus EXCEPT
                       ![r] = Append(rx_consensus[r], CHOOSE c \in out : TRUE)]
    /\ tasks' = [tasks EXCEPT ![r] = Without(tasks[r], i)]
    /\ UNCHANGED <<state_vars, inner_vars, cur, engine, timers, tx_node, net,
                   expiries, active, other_vars, applied>>

\* ConsensusCommand::MisdirectedClientRequest
MisdirectedClientRequest(r) ==
    /\ Handling(r, "MisdirectedClientRequest")
    /\ LET request == cur[r].arg
           leader == current_leader(r)
           m == ClientRequestMessage(request)
       IN  /\ outstanding_requests' = [outstanding_requests EXCEPT
                  ![r] = outstanding_requests[r] \cup {request}]
           /\ tx_node' = [tx_node EXCEPT ![r] = Append(tx_node[r], SendMessage(leader, m))]
           /\ net' = send_message(net, r, leader, m)
           /\ timers' = [timers EXCEPT ![r] = SpawnTimer(r, request)]
    /\ cur' = [cur EXCEPT ![r] = NoCommand]
    /\ UNCHANGED <<state_vars, requests_seen, prepare_votes, commit_votes,
                   rx_consensus, engine, tasks, expiries, active, other_vars, applied>>

\* ConsensusCommand::ProcessClientRequest
ProcessClientRequest(r) ==
    /\ Handling(r, "ProcessClientRequest")
    /\ HasRoom(r)
    /\ rx_consensus' = [rx_consensus EXCEPT ![r] = Append(rx_consensus[r],
           IF r # current_leader(r)
           THEN Command("MisdirectedClientRequest", cur[r].arg)
           ELSE Command("InitPrePrepare", cur[r].arg))]
    /\ cur' = [cur EXCEPT ![r] = NoCommand]
    /\ UNCHANGED <<state_vars, inner_vars, engine, tasks, timers, tx_node, net,
                   expiries, active, other_vars, applied>>

\* The PrePrepare the primary builds in InitPrePrepare.
InitPrePrepareMessage(r, request) ==
    PrePrepare(r, view[r], seq_num[r], Hash(request), request)

\* ConsensusCommand::InitPrePrepare
InitPrePrepare(r) ==
    /\ Handling(r, "InitPrePrepare")
    /\ LET m == InitPrePrepareMessage(r, cur[r].arg)
       IN  /\ tx_node' = [tx_node EXCEPT ![r] = Append(tx_node[r], BroadCastMessage(m))]
           /\ net' = broadcast(net, r, m)
    /\ cur' = [cur EXCEPT ![r] = NoCommand]
    /\ UNCHANGED <<state_vars, inner_vars, rx_consensus, engine, tasks, timers,
                   expiries, active, other_vars, applied>>

\* The (view, seq_num) under which AcceptPrePrepare binds the request.
BindingKey(r, pre_prepare) == <<view[r], seq_num[r]>>

\* The Prepare a replica broadcasts in AcceptPrePrepare.
AcceptPrePrepareMessage(r, pre_prepare) ==
    Prepare(r, view[r], seq_num[r], pre_prepare.digest)

\* ConsensusCommand::AcceptPrePrepare
AcceptPrePrepare(r) ==
    /\ Handling(r, "AcceptPrePrepare")
    /\ LET pre_prepare == cur[r].arg
           prepare == AcceptPrePrepareMessage(r, pre_prepare)
       IN  /\ outstanding_requests' = [outstanding_requests EXCEPT
                  ![r] = outstanding_requests[r] \cup {pre_prepare.client_request}]
           /\ requests_seen' = [requests_seen EXCEPT
                  ![r] = MapPut(requests_seen[r], BindingKey(r, pre_prepare),
                                pre_prepare.client_request)]
           /\ tx_node' = [tx_node EXCEPT
                  ![r] = Append(tx_node[r], BroadCastMessage(prepare))]
           /\ net' = broadcast(net, r, prepare)
           /\ log' = [log EXCEPT ![r] = log[r] \o <<pre_prepare, prepare>>]
           /\ timers' = [timers EXCEPT ![r] = SpawnTimer(r, pre_prepare.client_request)]
    /\ cur' = [cur EXCEPT ![r] = NoCommand]
    /\ UNCHANGED <<in_view_change, view, seq_num, store, prepare_votes, commit_votes,
                   rx_consensus, engine, tasks, expiries, active, other_vars, applied>>

\* ConsensusCommand::AcceptPrepare
AcceptPrepare(r) ==
    /\ Handling(r, "AcceptPrepare")
    /\ LET prepare == cur[r].arg
           k == <<prepare.view, prepare.seq_num>>
       IN  /\ log' = [log EXCEPT ![r] = Append(log[r], prepare)]
           /\ prepare_votes' = [prepare_votes EXCEPT
                  ![r] = VotesAfter(prepare_votes[r], k, prepare.id)]
           /\ IF VoteCrosses(prepare_votes[r], k, prepare.id)
              THEN /\ HasRoom(r)
                   /\ rx_consensus' = [rx_consensus EXCEPT
                          ![r] = Append(rx_consensus[r], Command("EnterCommit", prepare))]
              ELSE UNCHANGED rx_consensus
    /\ cur' = [cur EXCEPT ![r] = NoCommand]
    /\ UNCHANGED <<in_view_change, view, seq_num, store, requests_seen, commit_votes,
                   outstanding_requests, engine, tasks, timers, tx_node, net, expiries,
                   active, other_vars, applied>>

\* The Commit a replica broadcasts in EnterCommit.
EnterCommitMessage(r, prepare) == Commit(r, view[r], seq_num[r], prepare.digest)

\* ConsensusCommand::EnterCommit
EnterCommit(r) ==
    /\ Handling(r, "EnterCommit")
    /\ LET m == EnterCommitMessage(r, cur[r].arg)
       IN  /\ tx_node' = [tx_node EXCEPT ![r] = Append(tx_node[r], BroadCastMessage(m))]
           /\ net' = broadcast(net, r, m)
    /\ cur' = [cur EXCEPT ![r] = NoCommand]
    /\ UNCHANGED <<state_vars, inner_vars, rx_consensus, engine, tasks, timers,
                   expiries, active, other_vars, applied>>

\* ConsensusCommand::AcceptCommit
AcceptCommit(r) ==
    /\ Handling(r, "AcceptCommit")
    /\ LET commit == cur[r].arg
           k == <<commit.view, commit.seq_num>>
       IN  /\ log' = [log EXCEPT ![r] = Append(log[r], commit)]
           /\ commit_votes' = [commit_votes EXCEPT
                  ![r] = VotesAfter(commit_votes[r], k, commit.id)]
           /\ IF VoteCrosses(commit_votes[r], k, commit.id)
              THEN /\ HasRoom(r)
                   /\ rx_consensus' = [rx_consensus EXCEPT
                          ![r] = Append(rx_consensus[r],
                                        Command("ApplyClientRequest", commit))]
              ELSE UNCHANGED rx_consensus
    /\ cur' = [cur EXCEPT ![r] = NoCommand]
    /\ UNCHANGED <<in_view_change, view, seq_num, store, requests_seen, prepare_votes,
                   outstanding_requests, engine, tasks, timers, tx_node, net, expiries,
                   active, other_vars, applied>>

\* A test that lets the leader start a view change.
already_in_view_change(r) == in_view_change[r]

\* The test of the InitViewChange handler: the replica is already in a view
\* change or is the leader.
in_view_change_or_leader(r) == in_view_change[r] \/ current_leader(r) = r

\* ConsensusCommand::InitViewChange.  The early return leaves spawn(), which
\* ends the engine loop.
InitViewChange(r) ==
    /\ Handling(r, "InitViewChange")
    /\ IF in_view_change_or_leader(r)
       THEN /\ engine' = [engine EXCEPT ![r] = "returned"]
            /\ UNCHANGED in_view_change
       ELSE /\ in_view_change' = [in_view_change EXCEPT ![r] = TRUE]
            /\ UNCHANGED engine
    /\ cur' = [cur EXCEPT ![r] = NoCommand]
    /\ UNCHANGED <<view, seq_num, log, store, inner_vars, rx_consensus, tasks,
                   timers, tx_node, net, expiries, active, other_vars, applied>>

\* ConsensusCommand::ApplyClientRequest.  The unwrap() panics when no request
\* is bound at (commit.view, commit.seq_num).
ApplyClientRequest(r) ==
    /\ Handling(r, "ApplyClientRequest")
    /\ LET commit == cur[r].arg
           k == <<commit.view, commit.seq_num>>
       IN  IF k \notin DOMAIN requests_seen[r]
           THEN /\ engine' = [engine EXCEPT ![r] = "panicked"]
                /\ UNCHANGED <<outstanding_requests, store, seq_num, applied>>
           ELSE LET client_request == requests_seen[r][k]
                IN  /\ outstanding_requests' = [outstanding_requests EXCEPT
                           ![r] = outstanding_requests[r] \ {client_request}]
                    /\ store' = [store EXCEPT
                           ![r] = StoreAfterApply(store[r], client_request)]
                    /\ seq_num' = [seq_num EXCEPT ![r] = seq_num[r] + 1]
                    /\ applied' = [applied EXCEPT ![r] = Append(applied[r],
                           [commit |-> commit, request |-> client_request,
                            at |-> Len(log[r]), sent |-> Len(tx_node[r]),
                            before |-> store[r]])]
                    /\ UNCHANGED engine
    /\ cur' = [cur EXCEPT ![r] = NoCommand]
    /\ UNCHANGED <<in_view_change, view, log, requests_seen, prepare_votes,
                   commit_votes, rx_consensus, tasks, timers, tx_node, net, expiries,
                   active, other_vars>>

\* A membership test that remembers every request ever waited for.
request_was_outstanding(r, request) == request \in DOMAIN timers[r]

\* InnerConsensus::request_is_outstanding
request_is_outstanding(r, request) == request \in outstanding_requests[r]

\* InnerConsensus::wait_for_outstanding: the sleep of one timer ends.
WaitForOutstanding(r, request) ==
    /\ r \in active
    /\ request \in DOMAIN timers[r]
    /\ timers[r][request] > 0
    /\ expiries > 0
    /\ expiries' = expiries - 1
    /\ IF request_is_outstanding(r, request)
       THEN /\ HasRoom(r)
            /\ rx_consensus' = [rx_consensus EXCEPT
                   ![r] = Append(rx_consensus[r], Command("InitViewChange", request))]
       ELSE UNCHANGED rx_consensus
    /\ timers' = [timers EXCEPT ![r] = [timers[r] EXCEPT ![request] = @ - 1]]
    /\ UNCHANGED <<state_vars, inner_vars, cur, engine, tasks, tx_node, net, active,
                   other_vars, applied>>

\* ------------------------------------------------------------ checkpoints
\* A CheckPoint message; the signature is left out as in the other messages.
CheckPoint(i, c, v, d, s) ==
    [type |-> "CheckPoint", id |-> i, committed_seq_num |-> c, view |-> v,
     state_digest |-> d, state |-> s]

\* A map without the entries whose key (view, seq_num) has seq_num <= c.
MapAbove(f, c) == [k \in {x \in DOMAIN f : x[2] > c} |-> f[k]]

\* A log without the messages whose seq_num is <= c.
LogAbove(q, c) ==
    LET Above(m) == m.seq_num > c
    IN  SelectSeq(q, Above)

\* ConsensusCommand::AcceptCheckpoint: the engine tallies the next CheckPoint
\* in flight by (committed_seq_num, state_digest); with the 2f+1st matching
\* CheckPoint the checkpoint becomes stable, the log, the accepted PrePrepares
\* and the vote tallies up to it are dropped and the checkpoint is recorded.
AcceptCheckpoint(r) ==
    /\ EngineIdle(r)
    /\ cp_net[r] # <<>>
    /\ cp_net' = [cp_net EXCEPT ![r] = Tail(cp_net[r])]
    /\ LET cp == Head(cp_net[r])
           c == cp.committed_seq_num
           k == <<c, cp.state_digest>>
           tally == VotesAfter(checkpoint_votes[r], k, cp.id)
           stable == /\ Cardinality(tally[k]) = 2 * NumFaulty + 1
                     /\ \/ k \notin DOMAIN checkpoint_votes[r]
                        \/ cp.id \notin checkpoint_votes[r][k]
       IN  /\ checkpoint_votes' = [checkpoint_votes EXCEPT ![r] = tally]
           /\ IF stable
              THEN /\ log' = [log EXCEPT ![r] = LogAbove(log[r], c)]
                   /\ requests_seen' = [requests_seen EXCEPT
                          ![r] = MapAbove(requests_seen[r], c)]
                   /\ prepare_votes' = [prepare_votes EXCEPT
                          ![r] = MapAbove(prepare_votes[r], c)]
                   /\ commit_votes' = [commit_votes EXCEPT
                          ![r] = MapAbove(commit_votes[r], c)]
                   /\ stable_checkpoints' = [stable_checkpoints EXCEPT
                          ![r] = Append(stable_checkpoints[r],
                                        [committed_seq_num |-> c,
                                         state_digest |-> cp.state_digest])]
              ELSE UNCHANGED <<log, requests_seen, prepare_votes, commit_votes,
                               stable_checkpoints>>
    /\ UNCHANGED <<in_view_change, view, seq_num, store, outstanding_requests,
                   rx_consensus, cur, engine, tasks, timers, tx_node, net, expiries,
                   active, applied, client_vars, lock_vars, message_vars>>

\* ------------------------------------------------------------ the client
\* VoteCounter.vote_threshold: the client needs more successful responses
\* than this.
vote_threshold == 1

\* The capacity of the channel from read_response to vote_count_fut.
ClientChannelCap == 32

\* A ClientResponse as read_response reads it; the signature is never read.
ClientResponse(i, ts, k, v, ok) ==
    [type |-> "ClientResponse", id |-> i, time_stamp |-> ts, key |-> k, value |-> v,
     success |-> ok]

\* A VoteCertificate.  Its votes are collected in the iteration order of a
\* HashSet, which is unspecified: they are kept as a set.
VoteCertificate(ts, vs) == [timestamp |-> ts, votes |-> vs]

\* The certificate read_response builds from the quorum of a time stamp.
CertificateOf(ts, quorum, all_votes) ==
    VoteCertificate(ts, {all_votes[<<ts, id>>] : id \in quorum})

\* VoteCounter::read_response, spawned by Client::listen for every connection:
\* it reads the one message of connection i.
read_response(i) ==
    /\ i \in 1 .. Len(responses)
    /\ responses' = Without(responses, i)
    /\ LET response == responses[i]
       IN  IF response.type = "ClientResponse" /\ response.success
           THEN LET ts == response.time_stamp
                    quorum == VotesAfter(success_vote_quorum, ts, response.id)
                    all_votes == MapPut(votes, <<ts, response.id>>, response)
                IN  /\ success_vote_quorum' = quorum
                    /\ votes' = all_votes
                    /\ IF Cardinality(quorum[ts]) > vote_threshold
                       THEN /\ Len(rx_client) < ClientChannelCap
                            /\ rx_client' = Append(rx_client,
                                   CertificateOf(ts, quorum[ts], all_votes))
                       ELSE UNCHANGED rx_client
           ELSE UNCHANGED <<success_vote_quorum, votes, rx_client>>
    /\ UNCHANGED <<replica_vars, checkpoint_vars, succ_votes, stdout, lock_vars,
                   message_vars>>

\* One turn of the loop of vote_count_fut in main.
vote_count_fut ==
    /\ rx_client # <<>>
    /\ rx_client' = Tail(rx_client)
    /\ LET vote_certificate == Head(rx_client)
       IN  IF vote_certificate.timestamp \in DOMAIN succ_votes
           THEN UNCHANGED <<succ_votes, stdout>>
           ELSE /\ succ_votes' = MapPut(succ_votes, vote_certificate.timestamp,
                                        vote_certificate)
                /\ stdout' = Append(stdout, vote_certificate)
    /\ UNCHANGED <<replica_vars, checkpoint_vars, responses, success_vote_quorum, votes,
                   lock_vars, message_vars>>

\* ------------------------------------------------------------ the mutexes
\* The tokio mutexes of InnerConsensus, shared by the engine loop and the
\* tasks it spawns.
Mutexes ==
    {"state", "requests_seen", "prepare_votes", "commit_votes", "outstanding_requests"}

\* The tasks of one replica that take mutexes: the engine loop, the spawned
\* process_message tasks and the spawned wait_for_outstanding tasks.
Engine == <<"engine", 0>>
NoTask == <<"none", 0>>
LockTasks ==
    {Engine} \cup ({"process_message", "wait_for_outstanding"} \X (1 .. MaxTasks))

\* m.lock().await, and the drop of the guard at the end of its scope.  Guards
\* are dropped in the reverse order of their declaration.
Lock(m) == <<"lock", m>>
Unlock(m) == <<"unlock", m>>
Guarded(m, body) == <<Lock(m)>> \o body \o <<Unlock(m)>>

\* add_outstanding_request, remove_outstanding_request and
\* request_is_outstanding: outstanding_requests is locked for one statement.
outstanding_request_locks == Guarded("outstanding_requests", <<>>)

\* An admission check of Prepares that locks requests_seen before state.
requests_seen_then_state_locks == Guarded("requests_seen", Guarded("state", <<>>))

\* InnerConsensus::should_accept_prepare: state, then requests_seen.
should_accept_prepare_locks == Guarded("state", Guarded("requests_seen", <<>>))

\* The lock operations of the handler of each command of the engine loop.
HandlerLocks(t) ==
    CASE t = "MisdirectedClientRequest" -> Guarded("state", outstanding_request_locks)
      [] t = "ProcessClientRequest" -> Guarded("state", <<>>)
      [] t = "InitPrePrepare" -> Guarded("state", <<>>)
      [] t = "AcceptPrePrepare" ->
            Guarded("state", Guarded("requests_seen", outstanding_request_locks))
      [] t = "AcceptPrepare" -> Guarded("state", Guarded("prepare_votes", <<>>))
      [] t = "EnterCommit" -> Guarded("state", <<>>)
      [] t = "AcceptCommit" -> Guarded("state", Guarded("commit_votes", <<>>))
      [] t = "InitViewChange" -> Guarded("state", <<>>)
      [] t = "ApplyClientRequest" ->
            Guarded("state", Guarded("requests_seen", outstanding_request_locks))

\* The lock operations of process_message for each type of message:
\* should_accept_pre_prepare locks state, should_accept_commit locks nothing,
\* and should_process_client_request locks state in in_view_change.
ProcessMessageLocks(t) ==
    CASE t = "PrePrepare" -> Guarded("state", <<>>)
      [] t = "Prepare" -> should_accept_prepare_locks
      [] t = "Commit" -> <<>>
      [] t = "ClientRequest" -> Guarded("state", <<>>)

\* The engine loop receives a command of type t and enters its handler.
StartHandler(t) ==
    /\ todo[Engine] = <<>>
    /\ todo' = [todo EXCEPT ![Engine] = HandlerLocks(t)]
    /\ UNCHANGED <<held_by, replica_vars, checkpoint_vars, client_vars, message_vars>>

\* tokio::spawn of process_message for a message of type t.
SpawnProcessMessage(i, t) ==
    /\ todo[<<"process_message", i>>] = <<>>
    /\ todo' = [todo EXCEPT ![<<"process_message", i>>] = ProcessMessageLocks(t)]
    /\ UNCHANGED <<held_by, replica_vars, checkpoint_vars, client_vars, message_vars>>

\* The sleep of a wait_for_outstanding task ends: it calls
\* request_is_outstanding.
WakeWaitForOutstanding(i) ==
    /\ todo[<<"wait_for_outstanding", i>>] = <<>>
    /\ todo' = [todo EXCEPT ![<<"wait_for_outstanding", i>>] = outstanding_request_locks]
    /\ UNCHANGED <<held_by, replica_vars, checkpoint_vars, client_vars, message_vars>>

\* Mutex::lock of a task completes: the mutex is free and the task takes it.
MutexLock(task) ==
    /\ todo[task] # <<>>
    /\ Head(todo[task])[1] = "lock"
    /\ held_by[Head(todo[task])[2]] = NoTask
    /\ held_by' = [held_by EXCEPT ![Head(todo[task])[2]] = task]
    /\ todo' = [todo EXCEPT ![task] = Tail(todo[task])]
    /\ UNCHANGED <<replica_vars, checkpoint_vars, client_vars, message_vars>>

\* A task drops a guard: the mutex is free again.
MutexDrop(task) ==
    /\ todo[task] # <<>>
    /\ Head(todo[task])[1] = "unlock"
    /\ held_by' = [held_by EXCEPT ![Head(todo[task])[2]] = NoTask]
    /\ todo' = [todo EXCEPT ![task] = Tail(todo[task])]
    /\ UNCHANGED <<replica_vars, checkpoint_vars, client_vars, message_vars>>

\* --------------------------------------------------------- signed messages
\* Ed25519 as used by messages.rs.  The key pair and the public key of a
\* replica are represented by its id; a signature is represented by the key
\* that made it and the bytes it was made over, so that it verifies under that
\* key and for those bytes only (the scheme is taken to be unforgeable and the
\* prehash collision free).
sign_prehashed(key_pair, pre_hashed) == <<key_pair, pre_hashed>>
verify_prehashed(pub_key, pre_hashed, signature) == signature = <<pub_key, pre_hashed>>

\* The ASCII bytes of the tags b"PrePrepare", b"Prepare", b"Commit",
\* b"Checkpoint" and b"ViewChange".
Tag(t) ==
    CASE t = "PrePrepare" -> <<80, 114, 101, 80, 114, 101, 112, 97, 114, 101>>
      [] t = "Prepare" -> <<80, 114, 101, 112, 97, 114, 101>>
      [] t = "Commit" -> <<67, 111, 109, 109, 105, 116>>
      [] t = "Checkpoint" -> <<67, 104, 101, 99, 107, 112, 111, 105, 110, 116>>
      [] t = "ViewChange" -> <<86, 105, 101, 119, 67, 104, 97, 110, 103, 101>>

\* PrePrepare::new_with_signature
PrePrepare_new_with_signature(key_pair, id, v, s, client_request) ==
    [type |-> "PrePrepare", id |-> id, view |-> v, seq_num |-> s,
     client_request_digest |-> DigestBytes(client_request),
     signature |-> sign_prehashed(key_pair,
         Tag("PrePrepare") \o LEBytes(v, 8) \o LEBytes(s, 8) \o DigestBytes(client_request)),
     client_request |-> client_request]

\* PrePrepare::is_properly_signed_by
PrePrepare_is_properly_signed_by(m, pub_key) ==
    verify_prehashed(pub_key,
        Tag("PrePrepare") \o LEBytes(m.view, 8) \o LEBytes(m.seq_num, 8)
            \o DigestBytes(m.client_request),
        m.signature)

\* Prepare::new_with_signature
Prepare_new_with_signature(key_pair, id, v, s, client_request) ==
    [type |-> "Prepare", id |-> id, view |-> v, seq_num |-> s,
     client_request_digest |-> DigestBytes(client_request),
     signature |-> sign_prehashed(key_pair,
         Tag("Prepare") \o LEBytes(v, 8) \o LEBytes(s, 8) \o DigestBytes(client_request))]

\* Prepare::is_properly_signed_by
Prepare_is_properly_signed_by(m, pub_key) ==
    verify_prehashed(pub_key,
        Tag("Prepare") \o LEBytes(m.view, 8) \o LEBytes(m.seq_num, 8)
            \o m.client_request_digest,
        m.signature)

\* Commit::new_with_signature
Commit_new_with_signature(key_pair, id, v, s, client_request_digest) ==
    [type |-> "Commit", id |-> id, view |-> v, seq_num |-> s,
     client_request_digest |-> client_request_digest,
     signature |-> sign_prehashed(key_pair,
         Tag("Commit") \o LEBytes(v, 8) \o LEBytes(s, 8) \o client_request_digest)]

\* Commit::is_properly_signed_by
Commit_is_properly_signed_by(m, pub_key) ==
    verify_prehashed(pub_key,
        Tag("Commit") \o LEBytes(m.view, 8) \o LEBytes(m.seq_num, 8)
            \o m.client_request_digest,
        m.signature)

\* CheckPoint::new_with_signature
CheckPoint_new_with_signature(key_pair, id, committed_seq_num, v, state_digest, state) ==
    [type |-> "CheckPoint", id |-> id, committed_seq_num |-> committed_seq_num,
     view |-> v, state_digest |-> state_digest, state |-> state,
     signature |-> sign_prehashed(key_pair,
         Tag("Checkpoint") \o LEBytes(committed_seq_num, 8) \o state_digest)]

\* CheckPoint::is_properly_signed_by
CheckPoint_is_properly_signed_by(m, pub_key) ==
    verify_prehashed(pub_key,
        Tag("Checkpoint") \o LEBytes(m.committed_seq_num, 8) \o m.state_digest,
        m.signature)

\* ViewChange::new_with_signature
ViewChange_new_with_signature(key_pair, id, new_view, last_stable, proof, prepares) ==
    [type |-> "ViewChange", id |-> id, new_view |-> new_view,
     last_stable_seq_num |-> last_stable,
     checkpoint_proof |-> proof,
     subsequent_prepares |-> prepares,
     signature |-> sign_prehashed(key_pair,
         Tag("ViewChange") \o LEBytes(new_view, 8) \o LEBytes(last_stable, 8))]

\* ViewChange::is_properly_signed_by
ViewChange_is_properly_signed_by(m, pub_key) ==
    verify_prehashed(pub_key,
        Tag("ViewChange") \o LEBytes(m.new_view, 8) \o LEBytes(m.last_stable_seq_num, 8),
        m.signature)

\* Message::is_properly_signed_by
is_properly_signed_by(m, pub_key) ==
    CASE m.type = "PrePrepare" -> PrePrepare_is_properly_signed_by(m, pub_key)
      [] m.type = "Prepare" -> Prepare_is_properly_signed_by(m, pub_key)
      [] m.type = "Commit" -> Commit_is_properly_signed_by(m, pub_key)
      [] m.type = "CheckPoint" -> CheckPoint_is_properly_signed_by(m, pub_key)
      [] m.type = "ViewChange" -> ViewChange_is_properly_signed_by(m, pub_key)
      [] OTHER -> TRUE

\* ------------------------------------------------------------- the inputs
\* The client's listen address and the keys and requests it issues.
ClientAddr == [ip |-> <<127, 0, 0, 1>>, port |-> 80]
KeyA == <<97>>
KeyB == <<98>>
ReqSetA == ClientRequest(ClientAddr, 1, KeyA, Some(7))
ReqGetA == ClientRequest(ClientAddr, 2, KeyA, None)
ReqSetB == ClientRequest(ClientAddr, 3, KeyB, Some(3))
Requests == {ReqSetA, ReqGetA, ReqSetB}

\* A scenario: the messages in flight at the start (sent by the client and by
\* the replicas that take no step; the engine checks no signature, so a sender
\* may write any id), the replicas that take steps, and how many timers expire
\* in the run.
EmptyNet == [c \in Conn |-> <<>>]
Flight(n, from, dest, msgs) == [n EXCEPT ![<<from, dest>>] = @ \o msgs]
Scenario(n, a, e) == [net |-> n, active |-> a, expiries |-> e]

\* What the view-0 primary and the replicas send for a request at seq_num s.
PP(request, s) == PrePrepare(0, 0, s, Hash(request), request)
P(i, request, s) == Prepare(i, 0, s, Hash(request))
C(i, request, s) == Commit(i, 0, s, Hash(request))

\* E1 at backup 1: the PrePrepare, Prepares and Commits for set(a, 7) arrive
\* from the primary and from replica 2, each on its own connection.
HappyBackup ==
    Scenario(Flight(Flight(EmptyNet,
        0, 1, <<PP(ReqSetA, 0), P(0, ReqSetA, 0), C(0, ReqSetA, 0)>>),
        2, 1, <<P(2, ReqSetA, 0), C(2, ReqSetA, 0)>>), {1}, 0)

\* E1 at the primary: the client's request, then the votes of two backups.
HappyPrimary ==
    Scenario(Flight(Flight(Flight(EmptyNet,
        Client, 0, <<ClientRequestMessage(ReqSetA)>>),
        1, 0, <<P(1, ReqSetA, 0), C(1, ReqSetA, 0)>>),
        2, 0, <<P(2, ReqSetA, 0), C(2, ReqSetA, 0)>>), {0}, 1)

\* E3/E4: requests reach backup 1; the primary stays silent; timers expire.
SilentPrimary ==
    Scenario(Flight(EmptyNet, Client, 1,
        <<ClientRequestMessage(ReqSetA), ClientRequestMessage(ReqGetA)>>), {1}, 2)

\* Two sets in a row at backup 1: set(a, 7) at seq_num 0 and set(b, 3) at
\* seq_num 1, each with three Commits.
TwoSets ==
    Scenario(Flight(EmptyNet, 0, 1,
        <<PP(ReqSetA, 0), C(0, ReqSetA, 0), C(2, ReqSetA, 0), C(3, ReqSetA, 0),
          PP(ReqSetB, 1), C(0, ReqSetB, 1), C(2, ReqSetB, 1), C(3, ReqSetB, 1)>>),
        {1}, 0)

\* A set and then a get of the same key at backup 1.
SetThenGet ==
    Scenario(Flight(EmptyNet, 0, 1,
        <<PP(ReqSetA, 0), C(0, ReqSetA, 0), C(2, ReqSetA, 0), C(3, ReqSetA, 0),
          PP(ReqGetA, 1), C(0, ReqGetA, 1), C(2, ReqGetA, 1), C(3, ReqGetA, 1)>>),
        {1}, 0)

\* The Commits of all four replicas for one request reach backup 1.
FourCommits ==
    Scenario(Flight(EmptyNet, 0, 1,
        <<PP(ReqSetA, 0), C(0, ReqSetA, 0), C(2, ReqSetA, 0), C(3, ReqSetA, 0),
          C(1, ReqSetA, 0)>>), {1}, 0)

\* Two PrePrepares for the same (view, seq_num) reach one replica, then
\* Commits for both digests.
TwoPrePrepares ==
    Scenario(Flight(EmptyNet, 0, 1,
        <<PP(ReqSetA, 0), PP(ReqSetB, 0), C(0, ReqSetA, 0), C(2, ReqSetB, 0),
          C(3, ReqSetA, 0)>>), {1}, 0)

\* A PrePrepare numbered ahead of the replica's own seq_num and a Prepare for
\* seq_num 0; a Prepare and a PrePrepare for another view; three Commits for a
\* (view, seq_num) at which nothing is bound.
Mismatches ==
    Scenario(Flight(EmptyNet, 0, 1,
        <<PP(ReqSetA, 1), P(0, ReqSetA, 0), Prepare(3, 1, 0, Hash(ReqSetA)),
          PrePrepare(0, 1, 0, Hash(ReqSetB), ReqSetB),
          Commit(3, 1, 5, Hash(ReqSetA)), Commit(2, 1, 5, Hash(ReqSetA)),
          Commit(0, 1, 5, Hash(ReqSetA))>>), {1}, 0)

\* Replay at the primary 0: replica 1 forwards the client's set(a, 7), the
\* Commits of sequence number 0 follow, then the same request is forwarded a
\* second time and the Commits of sequence number 1 follow.
Replay ==
    Scenario(Flight(EmptyNet, 1, 0,
        <<ClientRequestMessage(ReqSetA), C(1, ReqSetA, 0), C(2, ReqSetA, 0),
          C(3, ReqSetA, 0), ClientRequestMessage(ReqSetA), C(1, ReqSetA, 1),
          C(2, ReqSetA, 1), C(3, ReqSetA, 1)>>), {0}, 0)

\* A request no client issued: replica 2, which is not the leader of view 0,
\* fabricates it and sends backup 1 a PrePrepare for it under its own id,
\* followed by Commits.
ReqForged == ClientRequest(ClientAddr, 9, KeyA, Some(66))
Forged ==
    Scenario(Flight(EmptyNet, 2, 1,
        <<PrePrepare(2, 0, 0, Hash(ReqForged), ReqForged), C(0, ReqForged, 0),
          C(2, ReqForged, 0), C(3, ReqForged, 0)>>), {1}, 0)

\* Backup 1 receives the PrePrepare and the Prepares of all three other
\* replicas, one of them twice; its own Prepare comes back to it as well.
FourPrepares ==
    Scenario(Flight(EmptyNet, 0, 1,
        <<PP(ReqSetA, 0), P(0, ReqSetA, 0), P(2, ReqSetA, 0), P(3, ReqSetA, 0),
          P(3, ReqSetA, 0)>>), {1}, 0)

\* The client sends the primary 0 two requests back to back.
BackToBack ==
    Scenario(Flight(EmptyNet, Client, 0,
        <<ClientRequestMessage(ReqSetA), ClientRequestMessage(ReqSetB)>>), {0}, 0)

\* Backup 1 receives a PrePrepare that carries set(a, 7) under the digest of
\* set(b, 3).
BadDigest ==
    Scenario(Flight(EmptyNet, 0, 1,
        <<PrePrepare(0, 0, 0, Hash(ReqSetB), ReqSetA)>>), {1}, 0)

\* Backup 1 receives set(a, 7) from the client and the primary's PrePrepare
\* for the same request.
TwiceWaited ==
    Scenario(Flight(Flight(EmptyNet,
        Client, 1, <<ClientRequestMessage(ReqSetA)>>),
        0, 1, <<PP(ReqSetA, 0)>>), {1}, 1)

Scenarios == {HappyBackup, HappyPrimary, SilentPrimary, TwoSets, SetThenGet,
              FourCommits, TwoPrePrepares, Mismatches, Forged, FourPrepares,
              BackToBack, BadDigest, TwiceWaited}

\* E5: the primary equivocates at (view 0, seq_num 0): set(a, 7) to replica 1,
\* get(a) to replica 2, and Commits for each.
Equivocation ==
    Scenario(Flight(Flight(EmptyNet,
        0, 1, <<PP(ReqSetA, 0), C(0, ReqSetA, 0), C(2, ReqSetA, 0), C(3, ReqSetA, 0)>>),
        0, 2, <<PP(ReqGetA, 0), C(0, ReqGetA, 0), C(1, ReqGetA, 0), C(3, ReqGetA, 0)>>),
        {1, 2}, 0)

\* E3 in the whole cluster: the primary is faulty and silent, the client sends
\* set(a, 7) to the honest replicas 1 and 2 and then get(a) to replica 1.  At
\* most three timers are spawned, so every one of them can expire.
SilentCluster ==
    Scenario(Flight(Flight(EmptyNet,
        Client, 1, <<ClientRequestMessage(ReqSetA), ClientRequestMessage(ReqGetA)>>),
        Client, 2, <<ClientRequestMessage(ReqSetA)>>), {1, 2, 3}, 4)

\* No CheckPoint message in flight and nothing tallied or recorded.
NoCheckpoints ==
    /\ cp_net = [r \in Replicas |-> <<>>]
    /\ checkpoint_votes = [r \in Replicas |-> EmptyMap]
    /\ stable_checkpoints = [r \in Replicas |-> <<>>]

\* The client's VoteCounter and vote_count_fut after construction, with the
\* given ClientResponses in flight.
NewClient(in_flight) ==
    /\ responses = in_flight
    /\ success_vote_quorum = EmptyMap
    /\ votes = EmptyMap
    /\ rx_client = <<>>
    /\ succ_votes = EmptyMap
    /\ stdout = <<>>

\* Every mutex free and no task inside a lock operation.
NoLocks ==
    /\ held_by = [m \in Mutexes |-> NoTask]
    /\ todo = [task \in LockTasks |-> <<>>]

\* No digest taken and no signed message under way.
NoMessage == [type |-> "None"]
NoMessages ==
    /\ hashed = <<>>
    /\ digests = <<>>
    /\ sent = NoMessage
    /\ received = NoMessage
    /\ verdict = None

\* The state after construction of every replica, with the traffic of one of
\* the scenarios in flight.
NewReplicas(scenarios) ==
    /\ in_view_change = [r \in Replicas |-> FALSE]
    /\ view = [r \in Replicas |-> 0]
    /\ seq_num = [r \in Replicas |-> 0]
    /\ log = [r \in Replicas |-> <<>>]
    /\ store = [r \in Replicas |-> EmptyMap]
    /\ requests_seen = [r \in Replicas |-> EmptyMap]
    /\ prepare_votes = [r \in Replicas |-> EmptyMap]
    /\ commit_votes = [r \in Replicas |-> EmptyMap]
    /\ outstanding_requests = [r \in Replicas |-> {}]
    /\ rx_consensus = [r \in Replicas |-> <<>>]
    /\ cur = [r \in Replicas |-> NoCommand]
    /\ engine = [r \in Replicas |-> "running"]
    /\ tasks = [r \in Replicas |-> <<>>]
    /\ timers = [r \in Replicas |-> EmptyMap]
    /\ tx_node = [r \in Replicas |-> <<>>]
    /\ applied = [r \in Replicas |-> <<>>]
    /\ \E sc \in scenarios :
        /\ net = sc.net
        /\ active = sc.active
        /\ expiries = sc.expiries

\* The state after construction with the replicas' traffic of one of the
\* scenarios in flight, no CheckPoint and no ClientResponse.
InitWith(scenarios) ==
    /\ NewReplicas(scenarios) /\ NoCheckpoints /\ NewClient(<<>>)
    /\ NoLocks /\ NoMessages

Init == InitWith(Scenarios)

Next ==
    \E r \in Replicas :
        \/ \E from \in 0 .. NumNodes : ProcessMessage(r, from)
        \/ \E i \in 1 .. MaxTasks : RunProcessMessage(r, i)
        \/ Recv(r)
        \/ MisdirectedClientRequest(r)
        \/ ProcessClientRequest(r)
        \/ InitPrePrepare(r)
        \/ AcceptPrePrepare(r)
        \/ AcceptPrepare(r)
        \/ EnterCommit(r)
        \/ AcceptCommit(r)
        \/ InitViewChange(r)
        \/ ApplyClientRequest(r)
        \/ \E q \in Requests : WaitForOutstanding(r, q)

Spec == Init /\ [][Next]_vars

\* The cluster under an equivocating primary: replicas 1 and 2 run, and the
\* steps are those of the messages they receive.
InitEquivocation == InitWith({Equivocation})

NextEquivocation ==
    \E r \in Replicas :
        \/ \E from \in 0 .. NumNodes : ProcessMessage(r, from)
        \/ \E i \in 1 .. MaxTasks : RunProcessMessage(r, i)
        \/ Recv(r)
        \/ AcceptPrePrepare(r)
        \/ AcceptPrepare(r)
        \/ AcceptCommit(r)
        \/ ApplyClientRequest(r)

SpecEquivocation == InitEquivocation /\ [][NextEquivocation]_vars

\* The cluster under a silent primary: replicas 1, 2 and 3 run, and the steps
\* are those of the client's requests and of the timers.  Every task, the
\* engine loop of every replica and every sleeping timer is scheduled fairly.
InitSilent == InitWith({SilentCluster})

NextSilent ==
    \E r \in Replicas :
        \/ \E from \in 0 .. NumNodes : ProcessMessage(r, from)
        \/ \E i \in 1 .. MaxTasks : RunProcessMessage(r, i)
        \/ Recv(r)
        \/ ProcessClientRequest(r)
        \/ MisdirectedClientRequest(r)
        \/ InitViewChange(r)
        \/ \E q \in Requests : WaitForOutstanding(r, q)

FairSilent ==
    \A r \in Replicas :
        /\ \A from \in 0 .. NumNodes : WF_vars(ProcessMessage(r, from))
        /\ \A i \in 1 .. MaxTasks : WF_vars(RunProcessMessage(r, i))
        /\ WF_vars(Recv(r))
        /\ WF_vars(ProcessClientRequest(r))
        /\ WF_vars(MisdirectedClientRequest(r))
        /\ WF_vars(InitViewChange(r))
        /\ \A q \in Requests : WF_vars(WaitForOutstanding(r, q))

SpecSilent == InitSilent /\ [][NextSilent]_vars /\ FairSilent

\* ------------------------------------------------ the replay specification
\* The primary under a replayed request: replica 0 runs, and the steps are
\* those of the three phases from the client's request to its application.
InitReplay == InitWith({Replay})

NextReplay ==
    \E r \in Replicas :
        \/ \E from \in 0 .. NumNodes : ProcessMessage(r, from)
        \/ \E i \in 1 .. MaxTasks : RunProcessMessage(r, i)
        \/ Recv(r)
        \/ ProcessClientRequest(r)
        \/ InitPrePrepare(r)
        \/ AcceptPrePrepare(r)
        \/ AcceptPrepare(r)
        \/ AcceptCommit(r)
        \/ ApplyClientRequest(r)

SpecReplay == InitReplay /\ [][NextReplay]_vars

\* --------------------------------------- the split-primary specification
\* E5 with sequence number 1: the faulty primary 0 sends a PrePrepare for
\* set(a, 7) at (view 0, seq_num 1) to replicas 1 and 2 and one for set(b, 3)
\* at (view 0, seq_num 1) to replica 3, and nothing else.
SplitPrimary ==
    Scenario(Flight(Flight(Flight(EmptyNet,
        0, 1, <<PP(ReqSetA, 1)>>),
        0, 2, <<PP(ReqSetA, 1)>>),
        0, 3, <<PP(ReqSetB, 1)>>), {1, 2, 3}, 0)

InitSplit == InitWith({SplitPrimary})

NextSplit ==
    \E r \in Replicas :
        \/ \E from \in 0 .. NumNodes : ProcessMessage(r, from)
        \/ \E i \in 1 .. MaxTasks : RunProcessMessage(r, i)
        \/ Recv(r)
        \/ AcceptPrePrepare(r)
        \/ AcceptPrepare(r)

SpecSplit == InitSplit /\ [][NextSplit]_vars

\* ------------------------------------------- the slow-quorum specification
\* E1 at the primary while the wait timer of the request runs out: replica 0
\* runs, and the steps are those of the three phases and of the timer.  Every
\* task, the engine loop and the sleeping timer are scheduled fairly.
InitTimeout == InitWith({HappyPrimary})

NextTimeout ==
    \E r \in Replicas :
        \/ \E from \in 0 .. NumNodes : ProcessMessage(r, from)
        \/ \E i \in 1 .. MaxTasks : RunProcessMessage(r, i)
        \/ Recv(r)
        \/ ProcessClientRequest(r)
        \/ InitPrePrepare(r)
        \/ AcceptPrePrepare(r)
        \/ AcceptPrepare(r)
        \/ EnterCommit(r)
        \/ AcceptCommit(r)
        \/ InitViewChange(r)
        \/ ApplyClientRequest(r)
        \/ \E q \in Requests : WaitForOutstanding(r, q)

FairTimeout ==
    \A r \in Replicas :
        /\ \A from \in 0 .. NumNodes : WF_vars(ProcessMessage(r, from))
        /\ \A i \in 1 .. MaxTasks : WF_vars(RunProcessMessage(r, i))
        /\ WF_vars(Recv(r))
        /\ WF_vars(ProcessClientRequest(r))
        /\ WF_vars(InitPrePrepare(r))
        /\ WF_vars(AcceptPrePrepare(r))
        /\ WF_vars(AcceptPrepare(r))
        /\ WF_vars(EnterCommit(r))
        /\ WF_vars(AcceptCommit(r))
        /\ WF_vars(InitViewChange(r))
        /\ WF_vars(ApplyClientRequest(r))
        /\ \A q \in Requests : WF_vars(WaitForOutstanding(r, q))

SpecTimeout == InitTimeout /\ [][NextTimeout]_vars /\ FairTimeout

\* -------------------------------------------- the checkpoint specification
\* The digests of two states, as the CheckPoints carry them.
DigestOne == <<1>>
DigestTwo == <<2>>

\* The CheckPoint of replica i for the state after sequence number c.
CP(i, c) ==
    CheckPoint(i, c, 0, IF c = 0 THEN DigestOne ELSE DigestTwo,
               MapPut(EmptyMap, KeyA, 7))

\* Backup 1 receives the PrePrepare and four Commits of sequence number 0.
Checkpointing == FourCommits

\* The CheckPoints arriving at backup 1, in their order of arrival.
ToBackup(cps) == [r \in Replicas |-> IF r = 1 THEN cps ELSE <<>>]

\* Replicas 0, 2 and 3 send their CheckPoints for sequence number 0.
OneCheckpoint == ToBackup(<<CP(0, 0), CP(2, 0), CP(3, 0)>>)

\* Replicas 0 and 2 send their CheckPoints for sequence numbers 0 and 1 in
\* this order; replica 3 sends the one for 1 first and the one for 0 last.
LateCheckpoint ==
    ToBackup(<<CP(0, 0), CP(2, 0), CP(0, 1), CP(2, 1), CP(3, 1), CP(3, 0)>>)

InitCheckpoint ==
    /\ NewReplicas({Checkpointing})
    /\ cp_net \in {OneCheckpoint, LateCheckpoint}
    /\ checkpoint_votes = [r \in Replicas |-> EmptyMap]
    /\ stable_checkpoints = [r \in Replicas |-> <<>>]
    /\ NewClient(<<>>)
    /\ NoLocks /\ NoMessages

NextCheckpoint ==
    \E r \in Replicas :
        \/ \E from \in 0 .. NumNodes : ProcessMessage(r, from)
        \/ \E i \in 1 .. MaxTasks : RunProcessMessage(r, i)
        \/ Recv(r)
        \/ AcceptPrePrepare(r)
        \/ AcceptPrepare(r)
        \/ AcceptCommit(r)
        \/ ApplyClientRequest(r)
        \/ AcceptCheckpoint(r)

SpecCheckpoint == InitCheckpoint /\ [][NextCheckpoint]_vars

\* ------------------------------------------------ the client specification
\* The answers to the client's set(a, 7) with time stamp 1 and set(b, 3) with
\* time stamp 3, each on a connection of its own: replica 0 answers twice,
\* replica 1 answers with another value, replica 2 as replica 0, replica 3
\* reports a failure, one connection carries a Prepare, and replicas 1 and 2
\* answer the second request with different keys.
Answers ==
    <<ClientResponse(0, 1, KeyA, Some(7), TRUE),
      ClientResponse(0, 1, KeyA, Some(7), TRUE),
      ClientResponse(1, 1, KeyA, Some(8), TRUE),
      ClientResponse(2, 1, KeyA, Some(7), TRUE),
      ClientResponse(3, 1, KeyA, Some(7), FALSE),
      P(1, ReqSetA, 0),
      ClientResponse(1, 3, KeyB, Some(3), TRUE),
      ClientResponse(2, 3, KeyA, Some(3), TRUE)>>

\* No replica runs and nothing is in flight between replicas.
Idle == Scenario(EmptyNet, {}, 0)

InitClient ==
    /\ NewReplicas({Idle}) /\ NoCheckpoints /\ NewClient(Answers)
    /\ NoLocks /\ NoMessages

NextClient ==
    \/ \E i \in 1 .. Len(Answers) : read_response(i)
    \/ vote_count_fut

SpecClient == InitClient /\ [][NextClient]_vars

\* ------------------------------------------------- the mutex specification
\* One replica's engine loop and spawned tasks, as far as they take mutexes:
\* any command may come next, and any message or timer may have a task.
InitIdle == InitWith({Idle})

NextLocks ==
    \/ \E t \in CommandTypes : StartHandler(t)
    \/ \E i \in 1 .. MaxTasks : \E t \in {"PrePrepare", "Prepare", "Commit", "ClientRequest"} :
            SpawnProcessMessage(i, t)
    \/ \E i \in 1 .. MaxTasks : WakeWaitForOutstanding(i)
    \/ \E task \in LockTasks : MutexLock(task)
    \/ \E task \in LockTasks : MutexDrop(task)

SpecLocks == InitIdle /\ [][NextLocks]_vars

\* ------------------------------------------------ the digest specification
\* The field values of the requests whose digests are compared: two listen
\* addresses of which one's text is a prefix of the other's, two time stamps,
\* and three keys, one of which ends in the bytes of the value 7 written twice.
DigestInputs ==
    {ClientRequest(addr, ts, k, v) :
        addr \in {ClientAddr, [ip |-> <<127, 0, 0, 1>>, port |-> 8]},
        ts \in {1, 304},
        k \in {KeyA, <<0>> \o KeyA, KeyA \o LEBytes(7, 4) \o LEBytes(7, 4)},
        v \in {None, Some(7)}}

\* Two requests are given; nothing is hashed yet.
InitDigest ==
    /\ NewReplicas({Idle}) /\ NoCheckpoints /\ NewClient(<<>>) /\ NoLocks
    /\ hashed \in DigestInputs \X DigestInputs
    /\ digests = <<>>
    /\ sent = NoMessage
    /\ received = NoMessage
    /\ verdict = None

\* ClientRequest::digest is called on the next of the requests given.
TakeDigest ==
    /\ Len(digests) < Len(hashed)
    /\ digests' = Append(digests, DigestBytes(hashed[Len(digests) + 1]))
    /\ UNCHANGED <<replica_vars, checkpoint_vars, client_vars, lock_vars, hashed,
                   sent, received, verdict>>

NextDigest == TakeDigest

SpecDigest == InitDigest /\ [][NextDigest]_vars

\* --------------------------------------------- the signature specification
\* The values the fields of the signed messages take, and the values a field
\* of a message in transit can be replaced with.
FieldValues(f) ==
    CASE f \in {"id", "view", "seq_num", "committed_seq_num", "new_view",
                "last_stable_seq_num"} -> {0, 1}
      [] f = "client_request" -> {ReqSetA, ReqSetB}
      [] f = "client_request_digest" -> {DigestBytes(ReqSetA), DigestBytes(ReqSetB)}
      [] f = "state_digest" -> {DigestOne, DigestTwo}
      [] f = "state" -> {EmptyMap, MapPut(EmptyMap, KeyA, 7)}
      [] f = "checkpoint_proof" ->
            {<<>>, <<CheckPoint_new_with_signature(1, 1, 0, 0, DigestOne, EmptyMap)>>}
      [] f = "subsequent_prepares" ->
            {EmptyMap,
             MapPut(EmptyMap, 1,
                    <<PrePrepare_new_with_signature(0, 0, 0, 1, ReqSetA), <<>>>>)}
      [] f = "signature" ->
            {sign_prehashed(i, Tag(t)) : i \in {0, 1}, t \in {"Prepare", "Commit"}}

\* The messages a replica builds with new_with_signature, under its own key
\* pair and id.
SignedMessages ==
    {PrePrepare_new_with_signature(i, i, v, n, q) :
        i \in FieldValues("id"), v \in FieldValues("view"),
        n \in FieldValues("seq_num"), q \in FieldValues("client_request")}
    \cup {Prepare_new_with_signature(i, i, v, n, q) :
        i \in FieldValues("id"), v \in FieldValues("view"),
        n \in FieldValues("seq_num"), q \in FieldValues("client_request")}
    \cup {Commit_new_with_signature(i, i, v, n, d) :
        i \in FieldValues("id"), v \in FieldValues("view"),
        n \in FieldValues("seq_num"), d \in FieldValues("client_request_digest")}
    \cup {CheckPoint_new_with_signature(i, i, n, v, d, st) :
        i \in FieldValues("id"), n \in FieldValues("committed_seq_num"),
        v \in FieldValues("view"), d \in FieldValues("state_digest"),
        st \in FieldValues("state")}
    \cup {ViewChange_new_with_signature(i, i, v, n, cp, sp) :
        i \in FieldValues("id"), v \in FieldValues("new_view"),
        n \in FieldValues("last_stable_seq_num"),
        cp \in FieldValues("checkpoint_proof"),
        sp \in FieldValues("subsequent_prepares")}

\* A replica builds a signed message and sends it.
NewWithSignature(m) ==
    /\ sent = NoMessage
    /\ sent' = m
    /\ received' = m
    /\ UNCHANGED <<replica_vars, checkpoint_vars, client_vars, lock_vars, hashed,
                   digests, verdict>>

\* The message is changed in transit: field f is replaced with the value v.
ChangeField(f, v) ==
    /\ sent # NoMessage
    /\ received = sent
    /\ verdict = None
    /\ f \in DOMAIN received \ {"type"}
    /\ v \in FieldValues(f)
    /\ v # received[f]
    /\ received' = [received EXCEPT ![f] = v]
    /\ UNCHANGED <<replica_vars, checkpoint_vars, client_vars, lock_vars, hashed,
                   digests, sent, verdict>>

\* The receiver calls is_properly_signed_by with the public key of the replica
\* that built the message.
Verify ==
    /\ received # NoMessage
    /\ verdict = None
    /\ verdict' = Some(is_properly_signed_by(received, sent.id))
    /\ UNCHANGED <<replica_vars, checkpoint_vars, client_vars, lock_vars, hashed,
                   digests, sent, received>>

NextSigned ==
    \/ \E m \in SignedMessages : NewWithSignature(m)
    \/ \E f \in {"id", "view", "seq_num", "committed_seq_num", "new_view",
                "last_stable_seq_num", "client_request_digest", "client_request",
                "state_digest", "state", "checkpoint_proof", "subsequent_prepares",
                "signature"} :
           \E v \in FieldValues(f) : ChangeField(f, v)
    \/ Verify

SpecSigned == InitIdle /\ [][NextSigned]_vars

\* ------------------------------------------------------------- properties
\* The replicas that follow the protocol in the run observed.
Honest == active

\* The entries of a replica's apply history, and the sequence number and the
\* request of one of them.
Applies(r) == 1 .. Len(applied[r])
AppliedSeq(r, i) == applied[r][i].commit.seq_num
AppliedRequest(r, i) == applied[r][i].request

\* The ids of the messages of type t in the log q that carry (view, seq_num,
\* digest) = (v, s, d).
Voters(q, t, v, s, d) ==
    {q[p].id : p \in {x \in 1 .. Len(q) :
        /\ q[x].type = t
        /\ q[x].view = v
        /\ q[x].seq_num = s
        /\ q[x].digest = d}}

\* The handler of command t of replica r completes in this step.
Handled(r, t) == Handling(r, t) /\ cur'[r] = NoCommand

\* C1 (Agreement): if two honest replicas have both applied a request at the
\* same sequence number, they applied the same client request.
C1_Agreement ==
    \A i \in Honest : \A j \in Honest \ {i} :
        \A a \in Applies(i) : \A b \in Applies(j) :
            AppliedSeq(i, a) = AppliedSeq(j, b)
                => AppliedRequest(i, a) = AppliedRequest(j, b)

\* C2 (Total order): at every replica the sequence numbers of the applied
\* requests ascend one by one, without a repeat and without a gap.
C2_TotalOrder ==
    \A r \in Replicas : \A i \in Applies(r) :
        i > 1 => AppliedSeq(r, i) = AppliedSeq(r, i - 1) + 1

\* C3 (Commit quorum): every request applied was applied after the replica
\* had logged Commits of at least 2f+1 distinct replicas that carry the view
\* and seq_num applied at and the digest of the request applied.
C3_AppliedAfterCommitQuorum ==
    \A r \in Replicas : \A i \in Applies(r) :
        LET a == applied[r][i]
        IN  Cardinality(Voters(SubSeq(log[r], 1, a.at), "Commit", a.commit.view,
                               a.commit.seq_num, Hash(a.request))) > 2 * NumFaulty

\* C4 (Commit only when prepared): whenever a replica accepts a Commit, its
\* log holds a PrePrepare for the Commit's (view, seq_num, digest) and
\* Prepares of at least 2f+1 distinct replicas for it.
C4_CommitOnlyWhenPrepared ==
    [][\A r \in Replicas : Handled(r, "AcceptCommit") =>
        LET m == cur[r].arg
        IN  /\ Voters(log[r], "PrePrepare", m.view, m.seq_num, m.digest) # {}
            /\ Cardinality(Voters(log[r], "Prepare", m.view, m.seq_num, m.digest))
                   > 2 * NumFaulty]_vars

\* C5 (Prepare only after PrePrepare): whenever a replica accepts a Prepare,
\* it has accepted a PrePrepare with the same view, seq_num and digest.
C5_PrepareOnlyAfterPrePrepare ==
    [][\A r \in Replicas : Handled(r, "AcceptPrepare") =>
        LET m == cur[r].arg
        IN  Voters(log[r], "PrePrepare", m.view, m.seq_num, m.digest) # {}]_vars

\* C6 (One PrePrepare per slot): no replica has accepted two PrePrepares with
\* the same (view, seq_num) and different digests.
C6_OnePrePreparePerSlot ==
    \A r \in Replicas : \A p \in 1 .. Len(log[r]) : \A q \in 1 .. Len(log[r]) :
        /\ log[r][p].type = "PrePrepare"
        /\ log[r][q].type = "PrePrepare"
        /\ log[r][p].view = log[r][q].view
        /\ log[r][p].seq_num = log[r][q].seq_num
        => log[r][p].digest = log[r][q].digest

\* Where a run under a silent primary stops: every message of the client has
\* been read, every command handled, every timer has expired, and the run
\* could have taken one more expiry.
SilentRunStopsQuiet ==
    (~ENABLED NextSilent) =>
        /\ expiries > 0
        /\ \A r \in Honest :
            /\ net[<<Client, r>>] = <<>>
            /\ tasks[r] = <<>>
            /\ rx_consensus[r] = <<>>
            /\ engine[r] = "running" => cur[r] = NoCommand
            /\ \A q \in DOMAIN timers[r] : timers[r][q] = 0

\* A request the client has submitted to at least f+1 honest replicas.
Submitted(request) ==
    Cardinality({r \in Honest :
        \E p \in 1 .. Len(net[<<Client, r>>]) :
            net[<<Client, r>>][p] = ClientRequestMessage(request)}) > NumFaulty

AppliedBy(r, request) == \E i \in Applies(r) : AppliedRequest(r, i) = request

\* C7 (Termination): a request submitted to at least f+1 honest replicas is
\* eventually applied by every honest replica.
C7_Termination ==
    Submitted(ReqSetA) ~> (\A r \in Honest : AppliedBy(r, ReqSetA))

\* A wait timer of an honest replica has expired.
TimerExpired ==
    \E r \in Honest : \E q \in DOMAIN timers[r] : timers[r][q] = 0

\* C8 (Silent primary): once a wait timer has expired under a silent view-0
\* primary, every honest replica eventually is in a later view with its
\* in_view_change flag false, and the request is applied in that view.
C8_ViewChangeProgress ==
    TimerExpired ~>
        (\A r \in Honest :
            /\ view[r] > 0
            /\ ~in_view_change[r]
            /\ \E i \in Applies(r) :
                /\ AppliedRequest(r, i) = ReqSetA
                /\ applied[r][i].commit.view > 0)

\* The ClientResponses among the NodeCommands replica r has emitted.
Responses(r) ==
    {p \in 1 .. Len(tx_node[r]) : tx_node[r][p].message.type = "ClientResponse"}

\* C9 (One response per apply): a replica has emitted as many ClientResponses
\* as it has applied requests, one after each apply.
C9_OneResponsePerApply ==
    \A r \in Replicas :
        /\ Cardinality(Responses(r)) = Len(applied[r])
        /\ \A i \in Applies(r) : \E p \in Responses(r) : p > applied[r][i].sent

\* C10 (Store frame): applying a set leaves the store with the key mapped to
\* the value and every other key as it was; applying a get leaves the store
\* as it was.
C10_StoreFrame ==
    [][\A r \in Replicas : Len(applied'[r]) > Len(applied[r]) =>
        LET q == applied'[r][Len(applied'[r])].request
        IN  IF q.value # None
            THEN /\ DOMAIN store'[r] = DOMAIN store[r] \cup {q.key}
                 /\ store'[r][q.key] \in q.value
                 /\ \A k \in DOMAIN store[r] \ {q.key} : store'[r][k] = store[r][k]
            ELSE store'[r] = store[r]]_vars

\* A replica has applied set(b, 3) to a store that held key a, and now holds
\* both keys.
C10_Witness ==
    \E r \in Replicas : \E i \in Applies(r) :
        /\ AppliedRequest(r, i) = ReqSetB
        /\ applied[r][i].before = MapPut(EmptyMap, KeyA, 7)
        /\ store[r] = MapPut(MapPut(EmptyMap, KeyA, 7), KeyB, 3)

\* ------------------------------------------------------------------- C11
\* The requests a replica applied that carry the (respond_addr, time_stamp)
\* of a request it had applied before.
Replays(r) ==
    {j \in Applies(r) : \E i \in 1 .. (j - 1) :
        /\ AppliedRequest(r, i).respond_addr = AppliedRequest(r, j).respond_addr
        /\ AppliedRequest(r, i).time_stamp = AppliedRequest(r, j).time_stamp
        /\ AppliedSeq(r, i) # AppliedSeq(r, j)}

\* C11 (idempotence of replay): a request with the (respond_addr, time_stamp)
\* of an already applied request is never applied a second time at a new
\* sequence number, so no replica's store is touched by a replay.
C11_ReplayIdempotent == \A r \in Honest : Replays(r) = {}

\* ------------------------------------------------------------------- C12
\* C12 (validity): every request an honest replica applied is one that the
\* client issued; a request fabricated by a replica, or carried only by the
\* PrePrepare of a sender that is not the leader, is never applied.
C12_Validity ==
    \A r \in Honest : \A i \in Applies(r) : AppliedRequest(r, i) \in Requests

\* ------------------------------------------------------------------- C15
\* The positions in a replica's output of its broadcasts of messages of type t.
Broadcasts(r, t) ==
    {p \in 1 .. Len(tx_node[r]) :
        /\ tx_node[r][p].type = "BroadCastMessage"
        /\ tx_node[r][p].message.type = t}

\* The message a replica broadcast at position p of its output.
Broadcast(r, p) == tx_node[r][p].message

\* C15 (EnterCommit once): for each (view, seq_num) a replica broadcasts at
\* most one Commit, whatever number of Prepares it accepts for the pair.
C15_OneCommitPerSlot ==
    \A r \in Honest : \A p, q \in Broadcasts(r, "Commit") :
        /\ Broadcast(r, p).view = Broadcast(r, q).view
        /\ Broadcast(r, p).seq_num = Broadcast(r, q).seq_num
        => p = q

\* ------------------------------------------------------------------- C16
\* C16 (apply once): for each (view, seq_num) a replica applies the bound
\* request at most once, whatever number of Commits it accepts for the pair.
C16_OneApplyPerSlot ==
    \A r \in Honest : \A i, j \in Applies(r) :
        /\ applied[r][i].commit.view = applied[r][j].commit.view
        /\ AppliedSeq(r, i) = AppliedSeq(r, j)
        => i = j

\* ------------------------------------------------------------------- C17
\* C17 (fresh sequence numbers): the PrePrepares a primary broadcasts in one
\* view carry strictly increasing sequence numbers, so no (view, seq_num) is
\* assigned to two client requests.
C17_FreshSeqNum ==
    \A r \in Honest : \A p, q \in Broadcasts(r, "PrePrepare") :
        /\ p < q
        /\ Broadcast(r, p).view = Broadcast(r, q).view
        => Broadcast(r, p).seq_num < Broadcast(r, q).seq_num

\* ------------------------------------------------------------------- C18
\* The message a replica emitted last.
LastSent(out) == out[Len(out)].message

\* C18 (phase messages keep the triple): accepting a PrePrepare pp binds the
\* request at (pp.view, pp.seq_num) and broadcasts a Prepare with pp's view,
\* seq_num and digest; EnterCommit(p) broadcasts a Commit with p's view,
\* seq_num and digest.
C18_TripleKept ==
    [][\A r \in Replicas :
        /\ Handled(r, "AcceptPrePrepare") =>
              LET pp == cur[r].arg
                  k == <<pp.view, pp.seq_num>>
              IN  /\ k \in DOMAIN requests_seen'[r]
                  /\ requests_seen'[r][k] = pp.client_request
                  /\ LastSent(tx_node'[r]) = Prepare(r, pp.view, pp.seq_num, pp.digest)
        /\ Handled(r, "EnterCommit") =>
              LET p == cur[r].arg
              IN  LastSent(tx_node'[r]) = Commit(r, p.view, p.seq_num, p.digest)]_vars

\* ------------------------------------------------------------------- C19
\* The other replicas whose Prepare for the request bound at k is in the log.
OtherPreparers(r, k) ==
    Voters(log[r], "Prepare", k[1], k[2], Hash(requests_seen[r][k])) \ {r}

\* The replica has been told to enter the commit phase of k, or has done so.
EnteredCommit(r, k) ==
    \/ \E p \in 1 .. Len(rx_consensus[r]) :
          /\ rx_consensus[r][p].type = "EnterCommit"
          /\ <<rx_consensus[r][p].arg.view, rx_consensus[r][p].arg.seq_num>> = k
    \/ cur[r].type = "EnterCommit" /\ <<cur[r].arg.view, cur[r].arg.seq_num>> = k
    \/ \E p \in Broadcasts(r, "Commit") : Broadcast(r, p).seq_num = k[2]

\* C19 (the own Prepare counts): a replica that accepted a PrePrepare and the
\* matching Prepares of 2f other replicas has 2f+1 votes and has entered the
\* commit phase.
C19_OwnPrepareCounts ==
    \A r \in Honest : \A k \in DOMAIN requests_seen[r] :
        Cardinality(OtherPreparers(r, k)) >= 2 * NumFaulty
        => /\ k \in DOMAIN prepare_votes[r]
           /\ Cardinality(prepare_votes[r][k]) >= 2 * NumFaulty + 1
           /\ EnteredCommit(r, k)

\* ------------------------------------------------------------------- C20
\* C20 (applying leaves seq_num alone): an ApplyClientRequest step does not
\* change seq_num, and the only step that does is an InitPrePrepare of the
\* primary.
C20_SeqNumFrame ==
    [][\A r \in Replicas :
        /\ Handled(r, "ApplyClientRequest") => seq_num'[r] = seq_num[r]
        /\ seq_num'[r] # seq_num[r]
              => Handled(r, "InitPrePrepare") /\ r = current_leader(r)]_vars

\* ------------------------------------------------------------------- C14
\* The replicas whose response in a certificate agrees with the response v on
\* (time_stamp, key, value, success).
Agreeing(certificate, v) ==
    {w.id : w \in {x \in certificate.votes :
        /\ x.time_stamp = v.time_stamp
        /\ x.key = v.key
        /\ x.value = v.value
        /\ x.success = v.success}}

\* C14 (client quorum): every answer the client reported rests on responses
\* of at least f+1 distinct replicas, all of which agree on (time_stamp, key,
\* value, success), and every time stamp is reported at most once.
C14_ClientQuorum ==
    /\ \A p \in 1 .. Len(stdout) : \A v \in stdout[p].votes :
          /\ v.time_stamp = stdout[p].timestamp
          /\ v.success
          /\ Agreeing(stdout[p], v) = {w.id : w \in stdout[p].votes}
          /\ Cardinality(Agreeing(stdout[p], v)) >= NumFaulty + 1
    /\ \A p, q \in 1 .. Len(stdout) :
          stdout[p].timestamp = stdout[q].timestamp => p = q

\* ------------------------------------------------------------------- C13
\* The sequence number of the latest stable checkpoint of a replica that has
\* one.
LatestStable(r) == stable_checkpoints[r][Len(stable_checkpoints[r])].committed_seq_num

\* C13 (checkpoint monotonicity): the committed_seq_num of the successive
\* stable checkpoints of a replica increases strictly, and once a checkpoint
\* is stable the log and the accepted PrePrepares of the replica hold no entry
\* with a seq_num up to it.
C13_CheckpointMonotonic ==
    \A r \in Honest :
        /\ \A p, q \in 1 .. Len(stable_checkpoints[r]) :
              p < q => stable_checkpoints[r][p].committed_seq_num
                           < stable_checkpoints[r][q].committed_seq_num
        /\ stable_checkpoints[r] # <<>> =>
              /\ \A p \in 1 .. Len(log[r]) : log[r][p].seq_num > LatestStable(r)
              /\ \A k \in DOMAIN requests_seen[r] : k[2] > LatestStable(r)

\* ------------------------------------------------------------------- C21
\* C21 (wrong leader): a PrePrepare whose sender is not the leader of the
\* replica's current view is never accepted, so the engine never handles
\* AcceptPrePrepare for one.
C21_PrePrepareFromLeaderOnly ==
    [][\A r \in Replicas : Handled(r, "AcceptPrePrepare") =>
        cur[r].arg.id = view[r] % NumNodes]_vars

\* ------------------------------------------------------------------- C22
\* C22 (digest mismatch): a PrePrepare whose digest field differs from the
\* digest of the request it carries is rejected, so the engine never handles
\* AcceptPrePrepare for one.
C22_PrePrepareDigestChecked ==
    [][\A r \in Replicas : Handled(r, "AcceptPrePrepare") =>
        cur[r].arg.digest = Hash(cur[r].arg.client_request)]_vars

\* ------------------------------------------------------------------- C23
\* C23 (no client request during a view change): a replica whose
\* in_view_change flag is true neither forwards a client request nor
\* broadcasts a PrePrepare for one.
C23_NoRequestInViewChange ==
    [][\A r \in Replicas :
        Handled(r, "MisdirectedClientRequest") \/ Handled(r, "InitPrePrepare")
            => ~in_view_change[r]]_vars

\* ------------------------------------------------------------------- C24
\* C24 (admission and mutation are atomic): when the engine handles the
\* command of an accepted PrePrepare, Prepare or Commit, the admission
\* predicate of the message holds in the state the handler mutates.
C24_AdmissionStillHolds ==
    [][\A r \in Replicas :
        /\ Handled(r, "AcceptPrePrepare") => should_accept_pre_prepare(r, cur[r].arg)
        /\ Handled(r, "AcceptPrepare") => should_accept_prepare(r, cur[r].arg)
        /\ Handled(r, "AcceptCommit") => should_accept_commit(r, cur[r].arg)]_vars

\* ------------------------------------------------------------------- C25
\* After the step the replica still holds the Prepare m: in a task, in a
\* command, or counted.
Retained(r, m) ==
    \/ \E i \in 1 .. Len(tasks'[r]) : tasks'[r][i] = m
    \/ \E p \in 1 .. Len(rx_consensus'[r]) :
          rx_consensus'[r][p] = Command("AcceptPrepare", m)
    \/ cur'[r] = Command("AcceptPrepare", m)
    \/ /\ <<m.view, m.seq_num>> \in DOMAIN prepare_votes'[r]
       /\ m.id \in prepare_votes'[r][<<m.view, m.seq_num>>]

\* C25 (out-of-order arrivals are parked): a Prepare for the current view
\* that arrives before a PrePrepare is bound at its (view, seq_num) is kept
\* by the replica, to be counted once the PrePrepare is accepted.
C25_EarlyPrepareParked ==
    [][\A r \in Replicas : \A i \in 1 .. Len(tasks[r]) :
        /\ r \in active
        /\ tasks[r][i].type = "Prepare"
        /\ tasks[r][i].view = view[r]
        /\ <<tasks[r][i].view, tasks[r][i].seq_num>> \notin DOMAIN requests_seen[r]
        => Retained(r, tasks[r][i])]_vars

\* ------------------------------------------------------------------- C27
\* C27 (one wait timer per request): while a request is in the wait set of a
\* replica, at most one timer is pending for it.
C27_OneTimerPerRequest ==
    \A r \in Honest : \A q \in DOMAIN timers[r] :
        q \in outstanding_requests[r] => timers[r][q] <= 1

\* ------------------------------------------------------------------- C26
\* A wait timer of replica r for request q expires in this step.
Expires(r, q) == q \in DOMAIN timers[r] /\ timers'[r][q] < timers[r][q]

C28_IgnoredViewChangeFrame ==
    [][\A r \in Replicas :
        Handled(r, "InitViewChange") /\ (in_view_change[r] \/ view[r] % NumNodes = r)
        => /\ view'[r] = view[r]
           /\ seq_num'[r] = seq_num[r]
           /\ in_view_change'[r] = in_view_change[r]
           /\ log'[r] = log[r]
           /\ store'[r] = store[r]
           /\ prepare_votes'[r] = prepare_votes[r]
           /\ commit_votes'[r] = commit_votes[r]
           /\ requests_seen'[r] = requests_seen[r]
           /\ outstanding_requests'[r] = outstanding_requests[r]
           /\ tx_node'[r] = tx_node[r]
           /\ rx_consensus'[r] = rx_consensus[r]
           /\ net' = net]_vars

\* A replica that was in a view change has handled a further InitViewChange:
\* the handler returned early.
C28_Witness ==
    \E r \in active : engine[r] = "returned" /\ in_view_change[r]

\* ------------------------------------------------------------------- C29
\* C29 (client request dispatch): a replica handling a client request goes
\* on to InitPrePrepare exactly if its id is view mod n, and only that
\* handler broadcasts a PrePrepare for the request; otherwise it goes on to
\* MisdirectedClientRequest, which sends the unchanged request once to
\* replica view mod n and leaves the request in the wait set.
C29_Dispatch ==
    [][\A r \in Replicas :
        LET leader == view[r] % NumNodes
            request == cur[r].arg
        IN  /\ Handled(r, "ProcessClientRequest") =>
                  rx_consensus'[r] = Append(rx_consensus[r],
                      Command(IF r = leader THEN "InitPrePrepare"
                              ELSE "MisdirectedClientRequest", request))
            /\ Handled(r, "InitPrePrepare") =>
                  /\ r = leader
                  /\ tx_node'[r] = Append(tx_node[r], BroadCastMessage(
                         PrePrepare(r, view[r], seq_num[r], Hash(request), request)))
            /\ Handled(r, "MisdirectedClientRequest") =>
                  /\ r # leader
                  /\ tx_node'[r] = Append(tx_node[r],
                         SendMessage(leader, ClientRequestMessage(request)))
                  /\ net' = [net EXCEPT ![<<r, leader>>] =
                                Append(@, ClientRequestMessage(request))]
                  /\ request \in outstanding_requests'[r]
            /\ /\ Len(tx_node'[r]) > Len(tx_node[r])
               /\ LastSent(tx_node'[r]).type \in {"PrePrepare", "ClientRequest"}
               => Handled(r, "InitPrePrepare") \/ Handled(r, "MisdirectedClientRequest")]_vars

\* A backup has forwarded set(a, 7) to the leader of its view and waits for it.
C29_Witness ==
    \E r \in active :
        /\ r # view[r] % NumNodes
        /\ \E p \in 1 .. Len(tx_node[r]) :
              tx_node[r][p] = SendMessage(view[r] % NumNodes, ClientRequestMessage(ReqSetA))
        /\ ReqSetA \in outstanding_requests[r]

\* ------------------------------------------------------------------- C30
\* The replica has been told to enter the commit phase for some Prepare.
ToldToCommit(r) ==
    \/ \E p \in 1 .. Len(rx_consensus[r]) : rx_consensus[r][p].type = "EnterCommit"
    \/ cur[r].type = "EnterCommit"

\* C30 (equivocating primary): when the primary sends PrePrepares for two
\* digests at one sequence number of view 0, for one to replicas 1 and 2 and
\* for the other to replica 3, no replica counts 2f+1 Prepare votes at any
\* sequence number of the view, none is told to enter the commit phase, none
\* broadcasts a Commit and none applies a request.
C30_NoQuorumUnderSplit ==
    \A r \in Honest :
        /\ \A k \in DOMAIN prepare_votes[r] :
              Cardinality(prepare_votes[r][k]) < 2 * NumFaulty + 1
        /\ ~ToldToCommit(r)
        /\ Broadcasts(r, "Commit") = {}
        /\ applied[r] = <<>>

\* All Prepares have been delivered: replicas 1 and 2 hold the votes of each
\* other for set(a, 7), replica 3 holds its own vote for set(b, 3) alone.
C30_Witness ==
    /\ active = {1, 2, 3}
    /\ \E k \in DOMAIN prepare_votes[1] : prepare_votes[1][k] = {1, 2}
    /\ \E k \in DOMAIN prepare_votes[2] : prepare_votes[2][k] = {1, 2}
    /\ \E k \in DOMAIN prepare_votes[3] : prepare_votes[3][k] = {3}
    /\ \A r \in active : \A from \in Replicas : net[<<from, r>>] = <<>>
    /\ \A r \in active : tasks[r] = <<>> /\ rx_consensus[r] = <<>> /\ cur[r] = NoCommand

\* ------------------------------------------------------------------- C31
\* The engine of replica r is handling an InitViewChange it ignores while a
\* command of type t is next in its queue.
QueuedBehindIgnored(r, t) ==
    /\ Handling(r, "InitViewChange")
    /\ in_view_change[r] \/ view[r] % NumNodes = r
    /\ rx_consensus[r] # <<>>
    /\ Head(rx_consensus[r]).type = t

\* C31 (The loop outlives an ignored InitViewChange): a command queued behind
\* an InitViewChange that the replica ignores, because it is already in a view
\* change or is the leader, is eventually dequeued by the engine loop.
C31_LoopOutlivesIgnoredViewChange ==
    \A r \in Replicas : \A t \in CommandTypes :
        QueuedBehindIgnored(r, t) ~> (cur[r].type = t)

\* ------------------------------------------------------------------- C32
\* C32 (Apply finds its request): whenever the engine handles the apply
\* command for a Commit c, a client request is bound at (c.view, c.seq_num)
\* in requests_seen, so the lookup of the handler succeeds.
C32_ApplyFindsRequest ==
    \A r \in Replicas : Handling(r, "ApplyClientRequest") =>
        <<cur[r].arg.view, cur[r].arg.seq_num>> \in DOMAIN requests_seen[r]

\* ------------------------------------------------------------------- C33
\* The engine of replica r is inside a handler that sends a follow-up command
\* on tx_consensus.
SendsFollowUp(r) ==
    \/ Handling(r, "ProcessClientRequest")
    \/ /\ Handling(r, "AcceptPrepare")
       /\ VoteCrosses(prepare_votes[r], <<cur[r].arg.view, cur[r].arg.seq_num>>,
                      cur[r].arg.id)
    \/ /\ Handling(r, "AcceptCommit")
       /\ VoteCrosses(commit_votes[r], <<cur[r].arg.view, cur[r].arg.seq_num>>,
                      cur[r].arg.id)

\* C33 (No self-blocking send): a handler that sends a follow-up command on
\* the engine's own bounded channel always finds room in it, so the send
\* completes and the loop goes on to its next command.  The loop is the only
\* consumer of the channel: a handler that finds the channel full waits for
\* room that only the loop itself could make.
C33_FollowUpSendCompletes ==
    \A r \in Replicas : SendsFollowUp(r) => Len(rx_consensus[r]) < QueueCap

\* ------------------------------------------------------------------- C34
\* Task a is waiting for mutex m, held by some task; task a waits for task b.
Waits(a, m) == todo[a] # <<>> /\ Head(todo[a]) = Lock(m) /\ held_by[m] # NoTask
WaitsFor(a, b) == \E m \in Mutexes : held_by[m] = b /\ Waits(a, m)

\* The order in which the mutexes are taken: state first, outstanding_requests
\* last.
LockRank(m) ==
    CASE m = "state" -> 0
      [] m \in {"requests_seen", "prepare_votes", "commit_votes"} -> 1
      [] m = "outstanding_requests" -> 2

\* C34 (No lock-order deadlock): the engine loop and the spawned tasks take
\* the mutexes in one consistent order (a task that holds a mutex only asks
\* for one later in the order), and no two tasks ever each hold a mutex the
\* other is waiting for; nor does a task wait for a mutex it holds itself.
C34_NoLockOrderDeadlock ==
    /\ \A a \in LockTasks : \A m \in Mutexes : \A w \in Mutexes :
           (held_by[m] = a /\ todo[a] # <<>> /\ Head(todo[a]) = Lock(w))
               => LockRank(m) < LockRank(w)
    /\ \A a \in LockTasks : \A b \in LockTasks : ~(WaitsFor(a, b) /\ WaitsFor(b, a))

\* The engine holds state and requests_seen and waits for outstanding_requests,
\* which a wait_for_outstanding task holds, while a process_message task waits
\* for state.
C34_Witness ==
    /\ held_by["state"] = Engine
    /\ held_by["requests_seen"] = Engine
    /\ WaitsFor(Engine, <<"wait_for_outstanding", 1>>)
    /\ WaitsFor(<<"process_message", 1>>, Engine)

\* ------------------------------------------------------------------- C35
\* C35 (Digest distinguishes requests): two client requests that differ in
\* respond_addr, time_stamp, key or value feed different byte sequences to
\* the hash of ClientRequest::digest.
C35_DigestDistinguishes ==
    (Len(digests) = 2 /\ hashed[1] # hashed[2]) => digests[1] # digests[2]

\* ------------------------------------------------------------------- C36
\* The fields in which the message received differs from the message sent.
Changed == {f \in DOMAIN sent \ {"type"} : received[f] # sent[f]}

\* C36 (Signatures bind content): when a signed PrePrepare, Prepare, Commit,
\* CheckPoint or ViewChange reaches the verifier with a field other than id
\* and signature changed, is_properly_signed_by returns false for the key of
\* the replica that signed it.
C36_SignatureBindsContent ==
    (verdict # None /\ Changed \ {"id", "signature"} # {}) => verdict = Some(FALSE)

====
